---- MODULE Spec2Model ----
(***************************************************************************)
(* A model of avail-rust-light's HTTP client (src/client/http.rs):         *)
(* Client::build_payload, Client::sign and the RPC wrappers they call,     *)
(* running against a chain node whose best block, finalized block and      *)
(* transaction pool change between any two requests.                       *)
(*                                                                         *)
(* Bytes are integers 0..255, byte strings are sequences of bytes, text is *)
(* a sequence of one-character strings.  A JSON value is a tagged tuple:   *)
(* <<"str", chars>>, <<"num", n>>, <<"null">>, <<"header", number>>,       *)
(* <<"rtv", spec_version, transaction_version>>.  An RPC result is         *)
(* <<"Ok", json>> or <<"Err">>.  An Option is <<"None">> or                *)
(* <<"Some", x>>; an optional policy is <<"None">> or the variant itself.  *)
(* A usize/u32 that is SCALE-compact encoded is a pair <<hi, lo>> of       *)
(* 16-bit limbs (value hi * 2^16 + lo), so that the boundary at u32::MAX   *)
(* stays inside TLC's integers.                                            *)
(***************************************************************************)
EXTENDS Integers, Sequences, FiniteSets, TLC

\* ------------------------------------------------------------------ bounds

\* Blocks the node may produce while the client runs.
MaxBlocks == 1
\* Transactions of the account that other clients may put in the pool.
MaxPool == 1

\* ------------------------------------------------------- bytes, hex, SCALE

Limb == 256 * 256

None == <<"None">>

Some(x) == <<"Some", x>>

IsSome(o) == o[1] = "Some"

HexDigits ==
  <<"0", "1", "2", "3", "4", "5", "6", "7", "8", "9", "a", "b", "c", "d", "e", "f">>

\* hex::encode: two lower-case digits per byte, high nibble first.
HexEncode(bytes) ==
  [i \in 1..(2 * Len(bytes)) |->
     IF i % 2 = 1 THEN HexDigits[(bytes[(i + 1) \div 2] \div 16) + 1]
                  ELSE HexDigits[(bytes[i \div 2] % 16) + 1]]

\* fn to_hex: "0x" followed by the hex digits.
to_hex(bytes) == <<"0", "x">> \o HexEncode(bytes)

IsHexDigit(c) == \E k \in 1..16 : HexDigits[k] = c

HexVal(c) == (CHOOSE k \in 1..16 : HexDigits[k] = c) - 1

\* hex::decode: None on an odd length or on a character that is no hex digit.
HexDecode(chars) ==
  IF Len(chars) % 2 = 1 \/ \E i \in 1..Len(chars) : ~IsHexDigit(chars[i])
    THEN None
    ELSE Some([i \in 1..(Len(chars) \div 2) |->
                 16 * HexVal(chars[2 * i - 1]) + HexVal(chars[2 * i])])

\* BlockHash::to_hex_string
to_hex_string(hash) == to_hex(hash)

\* BlockHash::from_hex_string: "0x" and exactly 32 bytes of hex, else None.
from_hex_string(chars) ==
  IF Len(chars) < 2 \/ chars[1] # "0" \/ chars[2] # "x"
    THEN None
    ELSE LET bytes == HexDecode(SubSeq(chars, 3, Len(chars)))
         IN  IF IsSome(bytes) /\ Len(bytes[2]) = 32 THEN bytes ELSE None

\* u32::encode: four bytes, little endian.
U32Encode(n) ==
  <<n % 256, (n \div 256) % 256, (n \div 65536) % 256, (n \div 16777216) % 256>>

\* u32::decode: the first four bytes, little endian; None when fewer are there.
U32Decode(bytes) ==
  IF Len(bytes) < 4
    THEN None
    ELSE Some(bytes[1] + 256 * bytes[2] + 65536 * bytes[3] + 16777216 * bytes[4])

\* usize as a pair of limbs.
ToLimbs(n) == <<n \div Limb, n % Limb>>

\* Compact<u32>::encode of the value hi * 2^16 + lo (< 2^32).
CompactEncode(v) ==
  LET hi == v[1]
      lo == v[2]
      lo4 == lo * 4
      hi4 == hi * 4 + (lo4 \div Limb)
  IN  IF hi = 0 /\ lo < 64
        THEN <<lo4>>
        ELSE IF hi = 0 /\ lo < 16384
          THEN <<(lo4 + 1) % 256, lo4 \div 256>>
          ELSE IF hi < 16384
            THEN <<(lo4 + 2) % 256, (lo4 \div 256) % 256, hi4 % 256, hi4 \div 256>>
            ELSE <<3, lo % 256, lo \div 256, hi % 256, hi \div 256>>

\* ------------------------------------------------------------- transaction

RECURSIVE NextPowerOfTwoFrom(_, _)
NextPowerOfTwoFrom(p, n) == IF p >= n THEN p ELSE NextPowerOfTwoFrom(2 * p, n)

\* u64::checked_next_power_of_two
next_power_of_two(n) == NextPowerOfTwoFrom(1, n)

Clamp(x, lo, hi) == IF x < lo THEN lo ELSE IF x > hi THEN hi ELSE x

\* CheckedMortality::mortal(period, current): <<period, phase>>.
mortal(period, current) ==
  LET p == Clamp(next_power_of_two(period), 4, Limb)
  IN  <<p, current % p>>

TrailingZeros(p) == CHOOSE k \in 0..16 : 2 ^ k = p

\* The two-byte encoding of a mortal era.
EraEncode(era) ==
  LET quantize_factor == IF era[1] \div 4096 > 1 THEN era[1] \div 4096 ELSE 1
      encoded == Clamp(TrailingZeros(era[1]) - 1, 1, 15)
                   + 16 * (era[2] \div quantize_factor)
  IN  <<encoded % 256, encoded \div 256>>

\* Extra { mortality, nonce, tip, app_id }, encoded field by field.
ExtraEncode(extra) ==
  EraEncode(extra.mortality) \o CompactEncode(ToLimbs(extra.nonce))
    \o CompactEncode(ToLimbs(extra.tip)) \o CompactEncode(ToLimbs(extra.app_id))

\* Additional { spec_version, tx_version, genesis_hash, fork_hash }, encoded.
AdditionalEncode(additional) ==
  U32Encode(additional.spec_version) \o U32Encode(additional.tx_version)
    \o additional.genesis_hash \o additional.fork_hash

\* UnsignedPayload::new(call, extra, additional).encode()
UnsignedPayloadEncode(call, extra, additional) ==
  [call |-> call, extra |-> ExtraEncode(extra),
   additional |-> AdditionalEncode(additional)]

\* The bytes the signer signs.
PayloadBytes(p) == p.call \o p.extra \o p.additional

\* MultiAddress::Id(account).encode()
MultiAddressIdEncode(account) == <<0>> \o account

\* MultiSignature::Sr25519(signature).encode()
MultiSignatureSr25519Encode(signature) == <<1>> \o signature

\* PublicKey::to_account_id
to_account_id(address) == address

\* ---------------------------------------------------------------- inputs

\* AccountId of the caller, and the public key and signature given to sign.
Account == [i \in 1..32 |-> 208 + (i % 8)]

PublicKeys == {Account}

Signatures == {[i \in 1..64 |-> 90]}

Calls == {<<171, 4, 1>>}

\* The hash a caller passes in Mortality::Custom.
CallerHash == [i \in 1..32 |-> 17]

NonceArgs ==
  {None, <<"BestBlockAndTxPool">>, <<"BestBlock">>, <<"FinalizedBlock">>,
   <<"Custom", 7>>}

MortalityArgs == {None, <<"Period", 10>>, <<"Custom", 10, 777, CallerHash>>}

TipArgs == {None, Some(300)}

AppIdArgs == {None, Some(1)}

\* The best block when the client starts: the node has run for a while.
StartBlocks == {[number |-> 1000, nonce |-> 3]}

\* The runtime version of the chain the node serves.
RuntimeVersions == {[spec_version |-> 5, transaction_version |-> 2]}

\* ----------------------------------------------------------------- state

VARIABLES
  blocks,             \* node: block id + 1 -> [number, nonce of the account]
  best,               \* node: id of the best block
  fin,                \* node: id of the finalized block
  pool,               \* node: pending transactions of the account
  rtv,                \* node: the live runtime version
  pc,                 \* client: where build_payload / sign stands
  args,               \* client: (call, account_id, extrinsic_extra)
  nonce,              \* client: let nonce
  block_hash,         \* client: let block_hash (nonce resolution)
  genesis_hash,       \* client: let genesis_hash
  best_block_hash,    \* client: let best_block_hash
  best_block_number,  \* client: let best_block_number
  mortality,          \* client: let (mortality, fork_hash): <<period, phase>>
  fork_hash,          \* client: let (mortality, fork_hash)
  payload,            \* client: Some(the UnsignedEncodedPayload returned)
  extrinsic,          \* client: the OpaqueTransaction returned by sign
  long_len,           \* sign on an encoded_inner given by its length alone
  log                 \* every request sent, in order, with its result

vars ==
  <<blocks, best, fin, pool, rtv, pc, args, nonce, block_hash, genesis_hash,
    best_block_hash, best_block_number, mortality, fork_hash, payload,
    extrinsic, long_len, log>>

fixed == <<rtv, long_len>>

node == <<blocks, best, fin, pool, fixed>>

locals ==
  <<args, nonce, block_hash, genesis_hash, best_block_hash, best_block_number,
    mortality, fork_hash>>

\* ------------------------------------------------------------------ node

BlockHashOf(id) == [i \in 1..32 |-> (32 * id + i) % 256]

BlockIds == 0..(Len(blocks) - 1)

BlockOf(hash) == {id \in BlockIds : BlockHashOf(id) = hash}

\* The block a hex parameter names: a set with at most one id.
BlockOfParam(json) ==
  IF json[1] # "str" THEN {}
  ELSE LET h == from_hex_string(json[2])
       IN  IF IsSome(h) THEN BlockOf(h[2]) ELSE {}

\* What the node answers to a request, or <<"Err">>.
Respond(method, params) ==
  CASE method = "chain_getBlockHash" ->
         <<"Ok", <<"str", to_hex_string(BlockHashOf(best))>>>>
    [] method = "chain_getFinalizedHead" ->
         <<"Ok", <<"str", to_hex_string(BlockHashOf(fin))>>>>
    [] method = "chainSpec_v1_genesisHash" ->
         <<"Ok", <<"str", to_hex_string(BlockHashOf(0))>>>>
    [] method = "chain_getHeader" ->
         IF params = None
           THEN <<"Ok", <<"header", blocks[best + 1].number>>>>
           ELSE LET ids == BlockOfParam(params[2][1])
                IN  IF ids = {} THEN <<"Ok", <<"null">>>>
                    ELSE <<"Ok", <<"header", blocks[(CHOOSE id \in ids : TRUE) + 1].number>>>>
    [] method = "system_accountNextIndex" ->
         <<"Ok", <<"num", blocks[best + 1].nonce + pool>>>>
    [] method = "state_call" ->
         LET ids == BlockOfParam(params[2][3])
         IN  IF ids = {} THEN <<"Err">>
             ELSE <<"Ok", <<"str",
                     to_hex(U32Encode(blocks[(CHOOSE id \in ids : TRUE) + 1].nonce))>>>>
    [] method = "state_getRuntimeVersion" ->
         <<"Ok", <<"rtv", rtv.spec_version, rtv.transaction_version>>>>

\* A response that is well-formed JSON but not what the method returns.
Garbled(method) ==
  CASE method \in {"chain_getBlockHash", "chain_getFinalizedHead",
                   "chainSpec_v1_genesisHash"} ->
         <<"Ok", <<"str", <<"0", "x", "z", "z">>>>>>
    [] method = "state_call" -> <<"Ok", <<"str", <<"0", "x", "0", "0">>>>>>
    [] OTHER -> <<"Ok", <<"null">>>>

\* What a request may come back with: the node's answer, a transport
\* failure, or a response that does not parse.
Results(method, params) == {Respond(method, params), <<"Err">>, Garbled(method)}

\* The node's changes are followed as long as the client may still send a
\* request that observes them: until build_payload has returned or panicked.
Observed == pc \notin {"done", "signed", "panicked"}

\* A new best block on top of the best block, including k pending transactions.
NewBlock ==
  /\ Observed
  /\ Len(blocks) <= MaxBlocks + 1
  /\ \E k \in 0..pool :
       /\ blocks' = Append(blocks, [number |-> blocks[best + 1].number + 1,
                                    nonce |-> blocks[best + 1].nonce + k])
       /\ pool' = pool - k
  /\ best' = Len(blocks)
  /\ UNCHANGED <<fin, fixed, pc, locals, payload, extrinsic, log>>

\* Finality advances to a block up to the best block.
Finalize ==
  /\ Observed
  /\ \E id \in (fin + 1)..best : fin' = id
  /\ UNCHANGED <<blocks, best, pool, fixed, pc, locals, payload, extrinsic, log>>

\* Another client submits a transaction of the account.
PoolTx ==
  /\ Observed
  /\ pool < MaxPool
  /\ pool' = pool + 1
  /\ UNCHANGED <<blocks, best, fin, fixed, pc, locals, payload, extrinsic, log>>

\* ---------------------------------------------------------- RPC wrappers

\* RpcParams::push / RpcParams::build: None when nothing was pushed.
RpcParamsBuild(pushed) == IF pushed = <<>> THEN None ELSE Some(pushed)

Entry(site, method, params, result) ==
  [site |-> site, method |-> method, params |-> params, result |-> result]

\* request::<String, _>(..).await.unwrap()
UnwrapString(r) ==
  IF r[1] = "Ok" /\ r[2][1] = "str" THEN Some(r[2][2]) ELSE None

\* request::<String, _>(..).await.unwrap(), then BlockHash::from_hex_string(..).unwrap()
UnwrapBlockHash(r) ==
  LET s == UnwrapString(r)
  IN  IF IsSome(s) THEN from_hex_string(s[2]) ELSE None

\* get_header: the parameters of chain_getHeader.
get_header_params(hash) ==
  IF IsSome(hash) THEN RpcParamsBuild(<<<<"str", to_hex_string(hash[2])>>>>) ELSE None

\* get_header: request::<Header, _>(..).await.unwrap()
get_header_result(r) ==
  IF r[1] = "Ok" /\ r[2][1] = "header" THEN Some([number |-> r[2][2]]) ELSE None

get_best_block_hash_result(r) == UnwrapBlockHash(r)

get_finalized_block_hash_result(r) == UnwrapBlockHash(r)

rpc_system_account_next_index_params(account_id) ==
  RpcParamsBuild(<<<<"ss58", account_id>>>>)

\* request::<u32, _>(..).await.unwrap()
rpc_system_account_next_index_result(r) ==
  IF r[1] = "Ok" /\ r[2][1] = "num" /\ r[2][2] >= 0 THEN Some(r[2][2]) ELSE None

\* rpc_chainSpec_v1_genesis_hash with unwrap_or_default in place of unwrap.
rpc_chainSpec_v1_genesis_hash_result_or_default(r) ==
  LET h == UnwrapBlockHash(r)
  IN  IF IsSome(h) THEN h ELSE Some([i \in 1..32 |-> 0])

rpc_chainSpec_v1_genesis_hash_result(r) == UnwrapBlockHash(r)

\* request::<RuntimeVersion, _>(..).await.unwrap()
rpc_state_get_runtime_version_result(r) ==
  IF r[1] = "Ok" /\ r[2][1] = "rtv"
    THEN Some([spec_version |-> r[2][2], transaction_version |-> r[2][3]])
    ELSE None

account_nonce_api_account_nonce_params(account_id, hash) ==
  RpcParamsBuild(<<<<"name", "AccountNonceApi_account_nonce">>,
                   <<"str", to_hex(account_id)>>,
                   <<"str", to_hex_string(hash)>>>>)

\* The String response without its first two characters, hex-decoded, then
\* decoded as a u32; each step unwrapped.
account_nonce_api_account_nonce_result(r) ==
  LET s == UnwrapString(r)
  IN  IF ~IsSome(s) \/ Len(s[2]) < 2 THEN None
      ELSE LET bytes == HexDecode(SubSeq(s[2], 3, Len(s[2])))
           IN  IF IsSome(bytes) THEN U32Decode(bytes[2]) ELSE None

\* ---------------------------------------------------------- build_payload

NoArgs == [call |-> <<>>, account_id |-> <<>>, nonce |-> None, mortality |-> None,
           tip |-> None, app_id |-> None]

\* An unwrap that failed: the panic unwinds build_payload and drops its locals.
Panic(e) ==
  /\ pc' = "panicked"
  /\ log' = Append(log, e)
  /\ args' = NoArgs
  /\ nonce' = None
  /\ block_hash' = None
  /\ genesis_hash' = None
  /\ best_block_hash' = None
  /\ best_block_number' = None
  /\ mortality' = None
  /\ fork_hash' = None

\* NonceStep with Nonce::FinalizedBlock read at the best block.
NonceStepFinalizedAtBest(n) ==
  CASE n = None -> "next_index"
    [] n[1] = "BestBlockAndTxPool" -> "next_index"
    [] n[1] = "BestBlock" -> "nonce_best_hash"
    [] n[1] = "FinalizedBlock" -> "nonce_best_hash"
    [] n[1] = "Custom" -> "genesis"

\* match nonce: the first step of nonce resolution.
NonceStep(n) ==
  CASE n = None -> "next_index"
    [] n[1] = "BestBlockAndTxPool" -> "next_index"
    [] n[1] = "BestBlock" -> "nonce_best_hash"
    [] n[1] = "FinalizedBlock" -> "nonce_finalized_hash"
    [] n[1] = "Custom" -> "genesis"

\* build_payload is called; Nonce::Custom(n) resolves without a request.
build_payload ==
  /\ pc = "idle"
  /\ \E call \in Calls, n \in NonceArgs, m \in MortalityArgs,
        tip \in TipArgs, app_id \in AppIdArgs :
       /\ args' = [call |-> call, account_id |-> Account, nonce |-> n,
                   mortality |-> m, tip |-> tip, app_id |-> app_id]
       /\ pc' = NonceStep(n)
       /\ nonce' = IF NonceStep(n) = "genesis" THEN n[2] ELSE None
  /\ UNCHANGED <<node, block_hash, genesis_hash, best_block_hash,
                 best_block_number, mortality, fork_hash, payload, extrinsic, log>>

\* self.rpc_system_account_next_index(account_id.clone()).await
await_account_next_index ==
  /\ pc = "next_index"
  /\ LET params == rpc_system_account_next_index_params(args.account_id)
     IN  \E r \in Results("system_accountNextIndex", params) :
           LET e == Entry(48, "system_accountNextIndex", params, r)
               v == rpc_system_account_next_index_result(r)
           IN  IF IsSome(v)
                 THEN /\ nonce' = v[2]
                      /\ pc' = "genesis"
                      /\ log' = Append(log, e)
                      /\ UNCHANGED <<args, block_hash, genesis_hash,
                                     best_block_hash, best_block_number,
                                     mortality, fork_hash>>
                 ELSE Panic(e)
  /\ UNCHANGED <<node, payload, extrinsic>>

\* let block_hash = self.get_best_block_hash().await (Nonce::BestBlock)
await_nonce_best_block_hash ==
  /\ pc = "nonce_best_hash"
  /\ \E r \in Results("chain_getBlockHash", None) :
       LET e == Entry(51, "chain_getBlockHash", None, r)
           v == get_best_block_hash_result(r)
       IN  IF IsSome(v)
             THEN /\ block_hash' = v[2]
                  /\ pc' = "nonce_read"
                  /\ log' = Append(log, e)
                  /\ UNCHANGED <<args, nonce, genesis_hash, best_block_hash,
                                 best_block_number, mortality, fork_hash>>
             ELSE Panic(e)
  /\ UNCHANGED <<node, payload, extrinsic>>

\* let block_hash = self.get_finalized_block_hash().await (Nonce::FinalizedBlock)
await_nonce_finalized_block_hash ==
  /\ pc = "nonce_finalized_hash"
  /\ \E r \in Results("chain_getFinalizedHead", None) :
       LET e == Entry(56, "chain_getFinalizedHead", None, r)
           v == get_finalized_block_hash_result(r)
       IN  IF IsSome(v)
             THEN /\ block_hash' = v[2]
                  /\ pc' = "nonce_read"
                  /\ log' = Append(log, e)
                  /\ UNCHANGED <<args, nonce, genesis_hash, best_block_hash,
                                 best_block_number, mortality, fork_hash>>
             ELSE Panic(e)
  /\ UNCHANGED <<node, payload, extrinsic>>

\* self.account_nonce_api_account_nonce(account_id.clone(), block_hash).await
await_account_nonce ==
  /\ pc = "nonce_read"
  /\ LET params == account_nonce_api_account_nonce_params(args.account_id, block_hash)
     IN  \E r \in Results("state_call", params) :
           LET e == Entry(IF args.nonce[1] = "BestBlock" THEN 52 ELSE 57,
                          "state_call", params, r)
               v == account_nonce_api_account_nonce_result(r)
           IN  IF IsSome(v)
                 THEN /\ nonce' = v[2]
                      /\ pc' = "genesis"
                      /\ log' = Append(log, e)
                      /\ UNCHANGED <<args, block_hash, genesis_hash,
                                     best_block_hash, best_block_number,
                                     mortality, fork_hash>>
                 ELSE Panic(e)
  /\ UNCHANGED <<node, payload, extrinsic>>

\* let genesis_hash = self.rpc_chainSpec_v1_genesis_hash().await
await_genesis_hash ==
  /\ pc = "genesis"
  /\ \E r \in Results("chainSpec_v1_genesisHash", None) :
       LET e == Entry(70, "chainSpec_v1_genesisHash", None, r)
           v == rpc_chainSpec_v1_genesis_hash_result(r)
       IN  IF IsSome(v)
             THEN /\ genesis_hash' = v[2]
                  /\ pc' = "best_hash"
                  /\ log' = Append(log, e)
                  /\ UNCHANGED <<args, nonce, block_hash, best_block_hash,
                                 best_block_number, mortality, fork_hash>>
             ELSE Panic(e)
  /\ UNCHANGED <<node, payload, extrinsic>>

\* let best_block_hash = self.get_best_block_hash().await
await_best_block_hash ==
  /\ pc = "best_hash"
  /\ \E r \in Results("chain_getBlockHash", None) :
       LET e == Entry(71, "chain_getBlockHash", None, r)
           v == get_best_block_hash_result(r)
       IN  IF IsSome(v)
             THEN /\ best_block_hash' = v[2]
                  /\ pc' = "header"
                  /\ log' = Append(log, e)
                  /\ UNCHANGED <<args, nonce, block_hash, genesis_hash,
                                 best_block_number, mortality, fork_hash>>
             ELSE Panic(e)
  /\ UNCHANGED <<node, payload, extrinsic>>

\* Option::unwrap_or_default
unwrap_or_default(o) == IF IsSome(o) THEN o[2] ELSE 0

\* The period build_payload uses when the caller names no mortality.
DefaultPeriod == 32

\* MortalityAndForkHash with Mortality::Custom phased at the best block.
MortalityAndForkHashCustomAtBest(m, number, hash) ==
  CASE m = None -> <<mortal(DefaultPeriod, number), hash>>
    [] m[1] = "Period" -> <<mortal(m[2], number), hash>>
    [] m[1] = "Custom" -> <<mortal(m[2], number), m[4]>>

\* MortalityAndForkHash anchored at the block the nonce was read at.
MortalityAndForkHashPinned(m, number, hash) ==
  LET anchor == IF block_hash = None THEN hash ELSE block_hash
  IN  CASE m = None -> <<mortal(DefaultPeriod, number), anchor>>
        [] m[1] = "Period" -> <<mortal(m[2], number), anchor>>
        [] m[1] = "Custom" -> <<mortal(m[2], m[3]), m[4]>>

\* match mortality: <<CheckedMortality, fork_hash>>.
MortalityAndForkHash(m, number, hash) ==
  CASE m = None -> <<mortal(DefaultPeriod, number), hash>>
    [] m[1] = "Period" -> <<mortal(m[2], number), hash>>
    [] m[1] = "Custom" -> <<mortal(m[2], m[3]), m[4]>>

\* HeaderArg asking for the header of whatever block is best now.
HeaderArgNone(hash) == None

\* The argument of get_header at line 72: Some(best_block_hash).
HeaderArg(hash) == Some(hash)

\* let best_block_header = self.get_header(Some(best_block_hash)).await,
\* then let (mortality, fork_hash) = match mortality { .. }
await_header ==
  /\ pc = "header"
  /\ LET params == get_header_params(HeaderArg(best_block_hash))
     IN  \E r \in Results("chain_getHeader", params) :
           LET e == Entry(72, "chain_getHeader", params, r)
               v == get_header_result(r)
           IN  IF IsSome(v)
                 THEN /\ best_block_number' = v[2].number
                      /\ LET mf == MortalityAndForkHash(args.mortality, v[2].number,
                                                        best_block_hash)
                         IN  mortality' = mf[1] /\ fork_hash' = mf[2]
                      /\ pc' = "runtime_version"
                      /\ log' = Append(log, e)
                      /\ UNCHANGED <<args, nonce, block_hash, genesis_hash,
                                     best_block_hash>>
                 ELSE Panic(e)
  /\ UNCHANGED <<node, payload, extrinsic>>

\* let extra = Extra { mortality, nonce, tip, app_id }
BuildExtra(era, n, tip, app_id) ==
  [mortality |-> era, nonce |-> n, tip |-> unwrap_or_default(tip),
   app_id |-> unwrap_or_default(app_id)]

\* BuildAdditional with the two hashes in each other's place.
BuildAdditionalSwapped(version, genesis, fork) ==
  [spec_version |-> version.spec_version, tx_version |-> version.transaction_version,
   genesis_hash |-> fork, fork_hash |-> genesis]

\* Additional::new(rtv.spec_version, rtv.transaction_version, genesis_hash, fork_hash)
BuildAdditional(version, genesis, fork) ==
  [spec_version |-> version.spec_version, tx_version |-> version.transaction_version,
   genesis_hash |-> genesis, fork_hash |-> fork]

\* let rtv = self.rpc_state_get_runtime_version().await, and the return value.
await_runtime_version ==
  /\ pc = "runtime_version"
  /\ \E r \in Results("state_getRuntimeVersion", None) :
       LET e == Entry(99, "state_getRuntimeVersion", None, r)
           v == rpc_state_get_runtime_version_result(r)
       IN  IF IsSome(v)
             THEN /\ payload' = Some(UnsignedPayloadEncode(
                                  args.call,
                                  BuildExtra(mortality, nonce, args.tip, args.app_id),
                                  BuildAdditional(v[2], genesis_hash, fork_hash)))
                  /\ pc' = "done"
                  /\ log' = Append(log, e)
                  /\ UNCHANGED locals
             ELSE Panic(e) /\ UNCHANGED payload
  /\ UNCHANGED <<node, extrinsic>>

\* ------------------------------------------------------------------- sign

\* u32_try_from as the truncating cast `len as u32`.
u32_truncate(len) == Some(<<len[1] % Limb, len[2]>>)

\* u32::try_from(usize): None above u32::MAX.
u32_try_from(len) == IF len[1] < Limb THEN Some(len) ELSE None

\* The length prefix of an inner sequence of len bytes, or None for the panic
\* of expect("extrinsic size expected to be <4GB").
LengthPrefix(len) ==
  LET n == u32_try_from(len)
  IN  IF IsSome(n) THEN Some(CompactEncode(n[2])) ELSE None

\* EncodedInner with the call attached before the extra.
EncodedInnerCallFirst(p, address, signature) ==
  <<128 + 4>> \o MultiAddressIdEncode(to_account_id(address))
    \o MultiSignatureSr25519Encode(signature) \o p.call \o p.extra

\* encoded_inner of sign.
EncodedInner(p, address, signature) ==
  <<128 + 4>> \o MultiAddressIdEncode(to_account_id(address))
    \o MultiSignatureSr25519Encode(signature) \o p.extra \o p.call

\* sign_result with the length taken before the call is attached.
sign_result_len_before_call(p, address, signature) ==
  LET encoded_inner ==
        <<128 + 4>> \o MultiAddressIdEncode(to_account_id(address))
          \o MultiSignatureSr25519Encode(signature) \o p.extra \o p.call
      prefix == LengthPrefix(ToLimbs(Len(encoded_inner) - Len(p.call)))
  IN  IF IsSome(prefix) THEN Some(prefix[2] \o encoded_inner) ELSE None

\* Client::sign: Some(bytes of the OpaqueTransaction), or None for the panic.
sign_result(p, address, signature) ==
  LET encoded_inner == EncodedInner(p, address, signature)
      prefix == LengthPrefix(ToLimbs(Len(encoded_inner)))
  IN  IF IsSome(prefix) THEN Some(prefix[2] \o encoded_inner) ELSE None

sign ==
  /\ pc = "done"
  /\ \E address \in PublicKeys, signature \in Signatures :
       LET x == sign_result(payload[2], address, signature)
       IN  /\ pc' = IF IsSome(x) THEN "signed" ELSE "panicked"
           /\ extrinsic' = IF IsSome(x) THEN x[2] ELSE None
  /\ UNCHANGED <<node, locals, payload, log>>

\* ---------------------------------------------------------- specification

Init ==
  /\ blocks \in {<<[number |-> 0, nonce |-> 0], b>> : b \in StartBlocks}
  /\ best = 1
  /\ fin = 1
  /\ pool = 0
  /\ rtv \in RuntimeVersions
  /\ pc = "idle"
  /\ args = NoArgs
  /\ nonce = None
  /\ block_hash = None
  /\ genesis_hash = None
  /\ best_block_hash = None
  /\ best_block_number = None
  /\ mortality = None
  /\ fork_hash = None
  /\ payload = None
  /\ extrinsic = None
  /\ long_len = None
  /\ log = <<>>

Next ==
  \/ NewBlock
  \/ Finalize
  \/ PoolTx
  \/ build_payload
  \/ await_account_next_index
  \/ await_nonce_best_block_hash
  \/ await_nonce_finalized_block_hash
  \/ await_account_nonce
  \/ await_genesis_hash
  \/ await_best_block_hash
  \/ await_header
  \/ await_runtime_version
  \/ sign

Spec == Init /\ [][Next]_vars

\* ------------------------------------------- the pure steps on their own

\* Requested lengths and anchor heights around the powers of two, the
\* minimum period and the maximum period.
PureLengths ==
  {0, 1, 2, 3, 4, 5, 10, 16, 32, 33, 4096, 4097, 65535, 65536, 65537, 70000,
   1048576}

PureHeights == {0, 3, 8, 1000, 4097, 65535, 65536, 70001}

PureMortalityArgs ==
  {None} \cup {<<"Period", l>> : l \in PureLengths}
         \cup {<<"Custom", l, h, CallerHash>> : l \in PureLengths, h \in {777, 65537}}

\* Calls that put the length of encoded_inner on both sides of 2^14.
PureCalls == {[i \in 1..n |-> 171] : n \in {1, 3, 16279, 16280}}

PurePayloads ==
  {UnsignedPayloadEncode(call, BuildExtra(era, n, tip, app_id),
                         BuildAdditional(v, BlockHashOf(0), BlockHashOf(1))) :
     call \in PureCalls, era \in {<<16, 8>>, <<65536, 4660>>},
     n \in {0, 63, 64, 16384}, tip \in {None, Some(300), Some(1073741824)},
     app_id \in AppIdArgs, v \in RuntimeVersions}

\* Lengths of encoded_inner (in limbs) around 2^14, 2^30 and 2^32; the
\* shortest encoded_inner has 104 bytes.
PureInnerLens ==
  {<<hi, lo>> : hi \in {0, 1, 16383, 16384, 65535, 65536, 65537, 100000},
                lo \in {104, 16383, 16384, 65535}}
    \cup {<<hi, 0>> : hi \in {1, 16384, 65536}}

\* The match on mortality (lines 76-90) applied to its inputs.
resolve_mortality ==
  /\ pc = "mortality"
  /\ LET mf == MortalityAndForkHash(args.mortality, best_block_number, best_block_hash)
     IN  mortality' = mf[1] /\ fork_hash' = mf[2]
  /\ pc' = "resolved"
  /\ UNCHANGED <<node, args, nonce, block_hash, genesis_hash, best_block_hash,
                 best_block_number, payload, extrinsic, log>>

\* The length prefix of sign (lines 133-139) applied to a length; extrinsic
\* holds the prefix alone.
sign_long ==
  /\ pc = "long"
  /\ LET prefix == LengthPrefix(long_len)
     IN  /\ pc' = IF IsSome(prefix) THEN "signed_long" ELSE "panicked"
         /\ extrinsic' = IF IsSome(prefix) THEN prefix[2] ELSE None
  /\ UNCHANGED <<node, locals, payload, log>>

InitPure ==
  /\ blocks \in {<<[number |-> 0, nonce |-> 0], b>> : b \in StartBlocks}
  /\ best = 1
  /\ fin = 1
  /\ pool = 0
  /\ rtv \in RuntimeVersions
  /\ nonce = None
  /\ block_hash = None
  /\ genesis_hash = None
  /\ mortality = None
  /\ fork_hash = None
  /\ extrinsic = None
  /\ log = <<>>
  /\ \/ /\ pc = "mortality"
        /\ \E m \in PureMortalityArgs : args = [NoArgs EXCEPT !.mortality = m]
        /\ best_block_number \in PureHeights
        /\ best_block_hash = BlockHashOf(1)
        /\ payload = None
        /\ long_len = None
     \/ /\ pc = "done"
        /\ args = NoArgs
        /\ best_block_number = None
        /\ best_block_hash = None
        /\ payload \in {Some(p) : p \in PurePayloads}
        /\ long_len = None
     \/ /\ pc = "long"
        /\ args = NoArgs
        /\ best_block_number = None
        /\ best_block_hash = None
        /\ payload = None
        /\ long_len \in PureInnerLens

NextPure ==
  \/ resolve_mortality
  \/ sign
  \/ sign_long

SpecPure == InitPure /\ [][NextPure]_vars

\* ------------------------------------------------------------ properties

\* The requests sent from lines lo..hi of http.rs, in order.
EntriesAt(lo, hi) == SelectSeq(log, LAMBDA e : e.site >= lo /\ e.site <= hi)

\* The block a response names by its hex hash: a set with at most one id.
BlockNamedBy(e) == BlockOfParam(e.result[2])

\* A request that failed in transport or came back unparseable.
EntryFailed(e) == e.result[1] = "Err" \/ e.result = Garbled(e.method)

ResolvedNonce == pc \in {"genesis", "best_hash", "header", "runtime_version", "done", "signed"}

ResolvedMortality == pc \in {"runtime_version", "done", "signed"}

Built == pc \in {"done", "signed"}

\* A compact length prefix read back: the value in limbs, and the bytes used.
CompactDecode(bytes) ==
  LET mode == bytes[1] % 4
  IN  CASE mode = 0 -> [value |-> <<0, bytes[1] \div 4>>, used |-> 1]
        [] mode = 1 -> [value |-> <<0, (bytes[1] + 256 * bytes[2]) \div 4>>, used |-> 2]
        [] mode = 2 ->
             LET lo == bytes[1] + 256 * bytes[2]
                 hi == bytes[3] + 256 * bytes[4]
             IN  [value |-> <<hi \div 4, (lo \div 4) + 16384 * (hi % 4)>>, used |-> 4]
        [] mode = 3 ->
             [value |-> <<bytes[4] + 256 * bytes[5], bytes[2] + 256 * bytes[3]>>,
              used |-> 1 + 4 + (bytes[1] \div 4)]

\* C1: once build_payload has resolved the nonce, the requests its nonce match
\* (lines 46-61) sent are fixed by the policy: Custom(v) sent none and the
\* nonce is v; FinalizedBlock sent chain_getFinalizedHead and then one
\* state_call against the hash that came back; BestBlock sent
\* chain_getBlockHash and then one state_call against the hash that came
\* back; BestBlockAndTxPool or no policy sent one system_accountNextIndex and
\* no state_call.  The nonce is the one the node holds for what was asked.
C1_NoncePolicyDecidesQueries ==
  ResolvedNonce =>
    LET q == EntriesAt(46, 61)
        n == args.nonce
        ReadAt(method) ==
          /\ Len(q) = 2
          /\ q[1].method = method
          /\ q[2].method = "state_call"
          /\ q[2].params[2][3] = q[1].result[2]
          /\ \E id \in BlockNamedBy(q[1]) : nonce = blocks[id + 1].nonce
    IN  CASE n[1] = "Custom" -> q = <<>> /\ nonce = n[2]
          [] n[1] = "FinalizedBlock" -> ReadAt("chain_getFinalizedHead")
          [] n[1] = "BestBlock" -> ReadAt("chain_getBlockHash")
          [] OTHER -> /\ Len(q) = 1
                      /\ q[1].method = "system_accountNextIndex"
                      /\ nonce = q[1].result[2][2]

\* C1 witness: a build that read the nonce at the finalized block while the
\* best block was another one, with another nonce.
C1_Witness ==
  /\ pc = "done"
  /\ args.nonce = <<"FinalizedBlock">>
  /\ block_hash = BlockHashOf(fin)
  /\ fin # best
  /\ nonce # blocks[best + 1].nonce

\* C2: with Mortality::Custom(period, best_number, block_hash), build_payload
\* sends no chain_getBlockHash and no chain_getHeader for the mortality, the
\* phase is best_number mod the period, and the fork hash is block_hash.
C2_ExplicitPeriodMakesNoChainCall ==
  (ResolvedMortality /\ args.mortality[1] = "Custom") =>
    /\ \A i \in 1..Len(log) :
         log[i].site >= 62 => log[i].method \notin {"chain_getBlockHash", "chain_getHeader"}
    /\ mortality[2] = args.mortality[3] % mortality[1]
    /\ fork_hash = args.mortality[4]

\* C3: in the extrinsic sign returns, the bytes after the length prefix, the
\* flag byte, the 33 address bytes and the 65 signature bytes are the extra
\* bytes of the unsigned payload, and the bytes after those are its call bytes.
C3_SignReemitsExtraAndCall ==
  pc = "signed" =>
    LET at == CompactDecode(extrinsic).used + 1 + 33 + 65
        signed == PayloadBytes(payload[2])
        extra == SubSeq(signed, Len(payload[2].call) + 1,
                        Len(payload[2].call) + Len(payload[2].extra))
        call == SubSeq(signed, 1, Len(payload[2].call))
    IN  /\ SubSeq(extrinsic, at + 1, at + Len(extra)) = extra
        /\ SubSeq(extrinsic, at + Len(extra) + 1, Len(extrinsic)) = call

\* C3 witness: a signed extrinsic of a payload whose nonce was read from the
\* chain and whose tip and app id the caller gave.
C3_Witness ==
  /\ pc = "signed"
  /\ args.nonce = <<"BestBlock">>
  /\ args.tip # None
  /\ args.app_id # None
  /\ Len(payload[2].extra) > 5
  /\ payload[2].call = <<171, 4, 1>>

\* C4: the compact length prefix of a signed extrinsic decodes to the number
\* of bytes that follow it.
C4_LengthPrefixCoversInner ==
  pc = "signed" =>
    LET d == CompactDecode(extrinsic)
    IN  d.value = ToLimbs(Len(extrinsic) - d.used)

\* C4 witness: a signed extrinsic whose inner sequence has 2^14 bytes or more,
\* so that the prefix takes four bytes.
C4_Witness ==
  /\ pc = "signed"
  /\ extrinsic[1] % 4 = 2
  /\ Len(extrinsic) >= 16384 + 4

Pow2s == {2 ^ k : k \in 0..16}

\* The smallest power of two >= max(l, 4), at most 2^16.
ExpectedPeriod(l) ==
  LET want == IF l > 4 THEN l ELSE 4
  IN  IF want > 2 ^ 16 THEN 2 ^ 16
      ELSE CHOOSE p \in Pow2s : p >= want /\ \A q \in Pow2s : q >= want => p <= q

\* C5: the resolved mortality has the period ExpectedPeriod(L), L being the
\* requested length (32 when no policy is given), and the phase h mod period,
\* h being the anchor height (the caller's for Custom, the best block's
\* otherwise).
C5_MortalityNormalised ==
  pc = "resolved" =>
    LET m == args.mortality
        l == IF m = None THEN 32 ELSE m[2]
        h == IF m[1] = "Custom" THEN m[3] ELSE best_block_number
        period == ExpectedPeriod(l)
    IN  /\ mortality = <<period, h % period>>
        /\ 0 <= mortality[2]
        /\ mortality[2] < mortality[1]

\* C5 witness: a requested length above 2^16 resolved with the period clamped,
\* at a height that the period does not divide.
C5_Witness ==
  /\ pc = "resolved"
  /\ args.mortality = <<"Period", 70000>>
  /\ best_block_number = 70001
  /\ mortality = <<65536, 4465>>

\* C6: the unsigned payload is call, extra (mortality, nonce, tip, app id),
\* additional (spec version, transaction version, genesis hash, fork hash),
\* with tip and app id 0 when omitted, the versions those the
\* state_getRuntimeVersion request of this build returned, the genesis hash
\* the one its chainSpec_v1_genesisHash request returned, and the fork hash
\* the mortality anchor.
C6_PayloadLayout ==
  Built =>
    LET version == EntriesAt(99, 99)[1].result[2]
        genesis == from_hex_string(EntriesAt(70, 70)[1].result[2][2])[2]
        anchor == IF args.mortality[1] = "Custom"
                    THEN args.mortality[4]
                    ELSE from_hex_string(EntriesAt(71, 71)[1].result[2][2])[2]
        tip == IF args.tip = None THEN 0 ELSE args.tip[2]
        app_id == IF args.app_id = None THEN 0 ELSE args.app_id[2]
    IN  PayloadBytes(payload[2]) =
          args.call \o EraEncode(mortality) \o CompactEncode(ToLimbs(nonce))
            \o CompactEncode(ToLimbs(tip)) \o CompactEncode(ToLimbs(app_id))
            \o U32Encode(version[2]) \o U32Encode(version[3]) \o genesis \o anchor

\* C6 witness: a payload built with tip and app id omitted, anchored at a
\* block that is not the genesis block.
C6_Witness ==
  /\ pc = "done"
  /\ args.tip = None
  /\ args.app_id = None
  /\ args.mortality = None
  /\ genesis_hash # fork_hash
  /\ nonce > 0

\* C7: when a request of build_payload fails, the build stops at that request
\* with no payload: a payload exists only if no request failed, and after a
\* failed request nothing more was sent.
C7_FailedQueryFailsBuild ==
  /\ payload # None => \A i \in 1..Len(log) : ~EntryFailed(log[i])
  /\ \A i \in 1..Len(log) :
       EntryFailed(log[i]) => i = Len(log) /\ pc = "panicked" /\ payload = None

\* C7 witness: a build that failed at its header request, after three or more
\* requests had succeeded.
C7_Witness ==
  /\ pc = "panicked"
  /\ Len(log) >= 4
  /\ log[Len(log)].method = "chain_getHeader"
  /\ EntryFailed(log[Len(log)])
  /\ payload = None

LimbsGreater(a, b) == a[1] > b[1] \/ (a[1] = b[1] /\ a[2] > b[2])

\* C8: sign panics exactly when encoded_inner is longer than u32::MAX bytes;
\* at or below it sign returns an extrinsic, whose prefix is that length.
C8_SignPanicsAboveU32Max ==
  pc \in {"signed_long", "panicked"} =>
    LET too_long == LimbsGreater(long_len, <<65535, 65535>>)
    IN  /\ pc = "panicked" <=> too_long
        /\ pc = "signed_long" => CompactDecode(extrinsic).value = long_len

\* C8 witness: the panic at u32::MAX + 1 bytes.
C8_Witness ==
  /\ pc = "panicked"
  /\ long_len = <<65536, 0>>
  /\ extrinsic = None

\* C9: with Mortality::Period or no mortality policy, the fork hash is the
\* hash of the block whose number gave the phase.
C9_ForkHashIsPhaseBlock ==
  (ResolvedMortality /\ args.mortality[1] # "Custom") =>
    /\ \E id \in BlockOf(fork_hash) :
         /\ best_block_number = blocks[id + 1].number
         /\ mortality[2] = blocks[id + 1].number % mortality[1]
    /\ Built => SubSeq(payload[2].additional, Len(payload[2].additional) - 31,
                       Len(payload[2].additional)) = fork_hash

\* C9 witness: a new best block arrived between chain_getBlockHash and
\* chain_getHeader, and the build went on.
C9_Witness ==
  /\ pc = "runtime_version"
  /\ args.mortality = <<"Period", 10>>
  /\ fork_hash # BlockHashOf(best)
  /\ \E i \in 1..Len(log) : log[i].site = 71 /\ BlockNamedBy(log[i]) = {best - 1}
  /\ blocks[best + 1].number % mortality[1] # mortality[2]

\* C10: with Nonce::BestBlock and Mortality::Period or no mortality policy,
\* chain_getBlockHash is sent twice; the nonce is read at the block the first
\* one named and the mortality is anchored at the block the second one named.
C10_NonceAndMortalityNotPinned ==
  (ResolvedMortality /\ args.nonce = <<"BestBlock">> /\ args.mortality[1] # "Custom") =>
    LET q == SelectSeq(log, LAMBDA e : e.method = "chain_getBlockHash")
    IN  /\ Len(q) = 2
        /\ BlockNamedBy(q[1]) = BlockOf(block_hash)
        /\ BlockNamedBy(q[2]) = BlockOf(fork_hash)
        /\ BlockOf(fork_hash) # {}

\* C10 witness: a build that returned a payload whose nonce was read at one
\* block and whose mortality is anchored at a later one.
C10_Witness ==
  /\ pc = "done"
  /\ args.nonce = <<"BestBlock">>
  /\ args.mortality[1] # "Custom"
  /\ block_hash # fork_hash
  /\ payload # None
  /\ \E a \in BlockOf(block_hash), b \in BlockOf(fork_hash) :
       blocks[a + 1].number < blocks[b + 1].number

====
